---- MODULE Spec2Model ----
(***************************************************************************)
(* The log relay of ratatouille: a bounded in-memory queue of NDJSON lines *)
(* that a periodic timer or flushNow() drains in batches to a transport.   *)
(* Two implementations share the queue code: the Node relay (relay.ts,     *)
(* tcp and http(s) lanes) and the Worker relay (relay.worker.ts, fetch).   *)
(* The variable impl says which class the modelled instance is.            *)
(*                                                                         *)
(* A string is a sequence of one-character strings, so that length,        *)
(* endsWith("\n") and join("") are computed and not assumed.               *)
(***************************************************************************)
EXTENDS Integers, Sequences, FiniteSets, TLC

VARIABLES
    impl,           \* "node" (relay.ts) or "worker" (relay.worker.ts)
    config,         \* this.config, fixed by the constructor
    fetchAvailable, \* Worker host: typeof globalThis.fetch === "function"
    socket,         \* this.socket: "undefined" or "open" (Node only)
    httpAgent,      \* this.httpAgent: "undefined" or "agent" (Node only)
    timer,          \* this.timer: "unset", "active" (setInterval), "cleared"
    closed,         \* this.closed
    flushing,       \* this.flushing
    q,              \* this.q: sequence of lines
    queuedBytes,    \* this.queuedBytes
    dropped, droppedBytes, sentBatches, sentBytes, failedFlushes,
    lastError,      \* "undefined" or the message
    lastFlushMs,    \* << >> while undefined, else <<duration>>
    inflight,       \* batches handed to the transport whose send has not completed
    thrown,         \* operations that have raised an exception to their caller
    calls,          \* number of send/sendLine/sendChunk calls made on the open relay
    encodeCalls,    \* number of calls the relay has made of the caller's config.encode
    drainedLines,   \* number of lines the drain loop has shifted out of q
    drainedBatches, \* number of non-empty batches a flush attempt has drained
    envDebug,       \* topic.ts: process.env.DEBUG, read by readEnvFilters()
    rtFilter,       \* topic.ts: RT_CFG.filter (<<>> while not a string)
    FILTER_CFG,     \* topic.ts: the compiled allow and deny patterns
    enabledCache,   \* topic.ts: Map topic -> boolean, as a set of entries
    seq,            \* the seq counter in the closure of each topic instance
    envelope,       \* << >> or <<the envelope built by the latest enabled call>>
    topicCalls,     \* number of topic calls made
    rtPrint,        \* topic.ts: RT_CFG.print (<<>> while not a boolean)
    PRINT_ENABLED,  \* topic.ts: the global print gate
    extensions,     \* the extensions array in the closure of each topic instance
    pending,        \* the callbacks handed to setTimeout(call, 0), oldest first
    ran,            \* << >> or <<the handler calls made by the latest callback>>
    printed         \* << >> or <<the latest call that wrote a line>>

topicvars == <<envDebug, rtFilter, FILTER_CFG, enabledCache, seq, envelope, topicCalls,
               rtPrint, PRINT_ENABLED, extensions, pending, ran, printed>>
sinkvars  == <<extensions, pending, ran, printed>>
relayvars == <<impl, config, fetchAvailable, socket, httpAgent, timer, closed, flushing,
               q, queuedBytes, dropped, droppedBytes, sentBatches, sentBytes,
               failedFlushes, lastError, lastFlushMs, inflight, thrown, calls,
               encodeCalls, drainedLines, drainedBatches>>
drainvars == <<drainedLines, drainedBatches>>
cfgvars   == <<impl, config, fetchAvailable>>
connvars  == <<socket, httpAgent, timer>>
queuevars == <<q, queuedBytes, dropped, droppedBytes>>
flushvars == <<sentBatches, sentBytes, failedFlushes, lastError, lastFlushMs>>
vars == <<impl, config, fetchAvailable, socket, httpAgent, timer, closed, flushing,
          q, queuedBytes, dropped, droppedBytes, sentBatches, sentBytes,
          failedFlushes, lastError, lastFlushMs, inflight, thrown, calls, encodeCalls,
          drainedLines, drainedBatches,
          envDebug, rtFilter, FILTER_CFG, enabledCache, seq, envelope, topicCalls,
          rtPrint, PRINT_ENABLED, extensions, pending, ran, printed>>

----------------------------------------------------------------------------
(* Bounds of the model *)

\* send/sendLine/sendChunk calls in one behaviour
MaxCalls == 3

NL == "\n"

\* Arguments of sendLine / sendChunk: unframed and framed, of several lengths
Texts == { <<"a">>, <<"b", NL>>, <<"c", "c", "c", "c">> }

\* Payloads of send(): a string, an envelope (plain object with a topic), and a
\* value JSON.stringify throws on (a BigInt, a cyclic object)
Payloads == { [kind |-> "str", s |-> <<"b", NL>>],
              [kind |-> "env", s |-> <<"a">>],
              [kind |-> "bad", s |-> <<>>] }

\* A payload JSON.stringify returns undefined for, without throwing: an envelope
\* whose toJSON() returns undefined (and, under an encoder that is
\* JSON.stringify itself, the value undefined or a function)
VoidPayloads == { [kind |-> "void", s |-> <<>>] }

\* Math.random(), in percent: a draw in [0, 1)
RandomDraws == {0, 50}

\* Date.now() - started, in ms
Durations == {0, 1}

\* Outcomes a transport reports for one batch
Outcomes == {"ok", "status", "error"}

----------------------------------------------------------------------------
(* Strings *)

EndsWithNL(s) == Len(s) > 0 /\ s[Len(s)] = NL

\* if (!data.endsWith("\n")) data += "\n"
Frame(s) == IF EndsWithNL(s) THEN s ELSE Append(s, NL)

RECURSIVE Join(_)
\* batch.join("")
Join(lines) == IF lines = <<>> THEN <<>> ELSE Head(lines) \o Join(Tail(lines))

RECURSIVE SumLen(_)
SumLen(lines) == IF lines = <<>> THEN 0 ELSE Len(Head(lines)) + SumLen(Tail(lines))

\* JSON.stringify of a string escapes a newline: the text holds no raw newline
JsonEscape(s) == [i \in 1..Len(s) |-> IF s[i] = NL THEN "n" ELSE s[i]]

----------------------------------------------------------------------------
(* Configuration *)

\* DEFAULTS, scaled down: the ceilings are a few bytes and a few lines; given is
\* the scheme of cfg.endpoint as passed in, endpoint the scheme after normalizeEndpoint
BaseConfig ==
    [given |-> "http", endpoint |-> "http", batchBytes |-> 5, maxQueueBytes |-> 8, maxQueue |-> 3,
     dropPolicy |-> "drop_oldest", keepAlive |-> TRUE, sampleRate |-> 100,
     encode |-> "undefined", source |-> FALSE]

\* cfg.endpoint as given to the constructor, by its scheme ("" is the empty string)
RawEndpoints == {"tcp", "http", "https", "ftp", ""}

\* Node normalizeEndpoint: only the path of an http(s) URL changes
NormalizeEndpointNode(e) == e

\* Worker normalizeEndpoint: anything without an http(s) scheme is given http://
NormalizeEndpointWorker(e) ==
    IF e = "" THEN e
    ELSE IF e \in {"http", "https"} THEN e ELSE "http"

NormalizeEndpoint(i, e) ==
    IF i = "node" THEN NormalizeEndpointNode(e) ELSE NormalizeEndpointWorker(e)

\* The ceilings (batchBytes, maxQueueBytes, maxQueue) the queue is checked under:
\* the line count binds first, the byte count binds first, a line can be larger
\* than the byte ceiling, a line can be oversize for a batch, and a ceiling of 0
Ceilings == { <<5, 8, 2>>, <<5, 8, 3>>, <<5, 4, 3>>, <<3, 8, 3>>, <<3, 4, 2>>, <<5, 8, 0>> }

\* Configurations that vary the queue ceilings and the drop policy
QueueConfigs ==
    { [BaseConfig EXCEPT !.batchBytes = c[1], !.maxQueueBytes = c[2], !.maxQueue = c[3],
                         !.dropPolicy = p] :
        c \in Ceilings, p \in {"drop_oldest", "drop_newest"} }

\* Configurations that vary the endpoint and keep-alive
LaneConfigs(i) ==
    { [BaseConfig EXCEPT !.given = e, !.endpoint = NormalizeEndpoint(i, e)] :
        e \in RawEndpoints }
    \cup { [BaseConfig EXCEPT !.given = "https", !.endpoint = "https", !.keepAlive = FALSE] }

\* Configurations that vary sampling and the encoder
SampleConfigs ==
    { [BaseConfig EXCEPT !.sampleRate = r, !.encode = c] :
        r \in {0, 50, 100}, c \in {"undefined", "custom"} }

Configs(i) == LaneConfigs(i) \cup SampleConfigs

\* The sampling and encoder configurations, and one that samples in front of a
\* queue of one line that rejects the incoming line when full
EncodeConfigs ==
    SampleConfigs
    \cup { [BaseConfig EXCEPT !.sampleRate = 50, !.maxQueue = 1, !.dropPolicy = "drop_newest"] }

----------------------------------------------------------------------------
(* Envelope encoder *)

\* encodeDefault: an envelope with a topic passes through ("{..}"), anything
\* else is wrapped as args: [payload] ("[..]"); a source identity adds "s".
\* JSON.stringify throws on a non-serializable payload, and returns undefined
\* (undef) when the object's toJSON() does.
EncodeDefault(p) ==
    IF p.kind = "bad" THEN [threw |-> TRUE, undef |-> FALSE, line |-> <<>>]
    ELSE IF p.kind = "void" THEN [threw |-> FALSE, undef |-> TRUE, line |-> <<>>]
    ELSE LET src  == IF config.source THEN <<"s">> ELSE <<>>
             body == JsonEscape(p.s) \o src
         IN  [threw |-> FALSE, undef |-> FALSE,
              line  |-> IF p.kind = "env" THEN <<"{">> \o body \o <<"}">>
                        ELSE <<"[">> \o body \o <<"]">>]

\* config.encode: a caller-supplied encoder; the modelled one returns the
\* payload's own text, throws on a payload it cannot encode, and returns what
\* JSON.stringify returns, undefined, for a payload that serializes to nothing
EncodeCustom(p) ==
    IF p.kind = "bad" THEN [threw |-> TRUE, undef |-> FALSE, line |-> <<>>]
    ELSE IF p.kind = "void" THEN [threw |-> FALSE, undef |-> TRUE, line |-> <<>>]
    ELSE [threw |-> FALSE, undef |-> FALSE, line |-> p.s]

Encode(p) == IF config.encode = "custom" THEN EncodeCustom(p) ELSE EncodeDefault(p)

----------------------------------------------------------------------------
(* Bounded queue *)

QState == [q |-> q, queuedBytes |-> queuedBytes,
           dropped |-> dropped, droppedBytes |-> droppedBytes]

\* (mutant) the eviction forgets the tracked byte count
EvictHeadKeepsBytes(st) ==
    LET old == Head(st.q) IN
    [q |-> Tail(st.q), queuedBytes |-> st.queuedBytes,
     dropped |-> st.dropped + 1, droppedBytes |-> st.droppedBytes + Len(old)]

\* (mutant) the eviction takes the newest line, q.pop(), instead of the oldest
EvictHeadPops(st) ==
    LET old == st.q[Len(st.q)] IN
    [q |-> SubSeq(st.q, 1, Len(st.q) - 1), queuedBytes |-> st.queuedBytes - Len(old),
     dropped |-> st.dropped + 1, droppedBytes |-> st.droppedBytes + Len(old)]

\* One eviction: q.shift(), queuedBytes -= old.length, dropped++, droppedBytes += old.length
EvictHead(st) ==
    LET old == Head(st.q) IN
    [q |-> Tail(st.q), queuedBytes |-> st.queuedBytes - Len(old),
     dropped |-> st.dropped + 1, droppedBytes |-> st.droppedBytes + Len(old)]

\* (mutant) nothing is evicted for a line that is larger than the byte ceiling
DropOldestUnlessHopeless(st, bytes) ==
    IF bytes > config.maxQueueBytes THEN st
    ELSE [q |-> <<>>, queuedBytes |-> 0,
          dropped |-> st.dropped + Len(st.q),
          droppedBytes |-> st.droppedBytes + st.queuedBytes]

RECURSIVE DropOldestUntilFits(_, _)
\* while (q.length && queuedBytes + bytes > maxQueueBytes) { shift; if (!old) break; ... }
DropOldestUntilFits(st, bytes) ==
    IF Len(st.q) > 0 /\ st.queuedBytes + bytes > config.maxQueueBytes
    THEN IF Len(Head(st.q)) = 0
         THEN [st EXCEPT !.q = Tail(st.q)]
         ELSE DropOldestUntilFits(EvictHead(st), bytes)
    ELSE st

\* (mutant) the byte guard evicts under drop_newest too
ByteGuardIgnoresPolicy(st, bytes) ==
    IF st.queuedBytes + bytes > config.maxQueueBytes
    THEN LET s2 == DropOldestUntilFits(st, bytes)
         IN  [fits |-> ~(s2.queuedBytes + bytes > config.maxQueueBytes), st |-> s2]
    ELSE [fits |-> TRUE, st |-> st]

\* Primary guard of ensureCapacity: bytes
ByteGuard(st, bytes) ==
    IF st.queuedBytes + bytes > config.maxQueueBytes
    THEN IF config.dropPolicy = "drop_newest"
         THEN [fits |-> FALSE, st |-> st]
         ELSE LET s2 == DropOldestUntilFits(st, bytes)
              IN  [fits |-> ~(s2.queuedBytes + bytes > config.maxQueueBytes), st |-> s2]
    ELSE [fits |-> TRUE, st |-> st]

\* (mutant) no line-count ceiling
CountGuardOff(st) == [fits |-> TRUE, st |-> st]

\* Secondary guard of ensureCapacity: line count (one eviction, then refuse)
CountGuard(st) ==
    IF Len(st.q) + 1 > config.maxQueue
    THEN IF config.dropPolicy = "drop_newest"
         THEN [fits |-> FALSE, st |-> st]
         ELSE LET s2 == IF st.q = <<>> THEN st
                        ELSE IF Len(Head(st.q)) = 0 THEN [st EXCEPT !.q = Tail(st.q)]
                        ELSE EvictHead(st)
              IN  [fits |-> ~(Len(s2.q) + 1 > config.maxQueue), st |-> s2]
    ELSE [fits |-> TRUE, st |-> st]

\* ensureCapacity(bytes): the queue state it leaves and whether the line fits
EnsureCapacity(st, bytes) ==
    LET b == ByteGuard(st, bytes) IN
    IF ~b.fits THEN b ELSE CountGuard(b.st)

\* (mutant) no oversize check
OversizeNever(data) == FALSE

\* (mutant) a line is oversize only when it is larger than the whole queue
OversizeForQueue(data) == Len(data) > config.maxQueueBytes

\* The line is oversize for one batch
Oversize(data) == Len(data) > config.batchBytes

\* (mutant) the drop of the incoming line forgets its bytes
CountDropNoBytes(st, data) == [st EXCEPT !.dropped = @ + 1]

\* The drop of the incoming line: dropped++, droppedBytes += data.length
CountDrop(st, data) ==
    [st EXCEPT !.dropped = @ + 1, !.droppedBytes = @ + Len(data)]

\* (mutant) the accepted line is put at the head, q.unshift(data)
PushFront(st, data) ==
    [st EXCEPT !.q = <<data>> \o @, !.queuedBytes = @ + Len(data)]

\* q.push(data); queuedBytes += data.length
Push(st, data) ==
    [st EXCEPT !.q = Append(@, data), !.queuedBytes = @ + Len(data)]

\* The common tail of send, sendLine and sendChunk on a framed line
Enqueue(st, data) ==
    IF Oversize(data) THEN CountDrop(st, data)
    ELSE LET c == EnsureCapacity(st, Len(data)) IN
         IF ~c.fits THEN CountDrop(c.st, data) ELSE Push(c.st, data)

SetQueue(st) ==
    /\ q' = st.q
    /\ queuedBytes' = st.queuedBytes
    /\ dropped' = st.dropped
    /\ droppedBytes' = st.droppedBytes

----------------------------------------------------------------------------
(* Topic filter and topic instances (topic.ts) *)

\* Topic calls in one behaviour
MaxTopicCalls == 3

\* Filter strings: unset, blank, "*", "a.b", "a*,-a.b", "-a.b", "axb -*b"
Filters ==
    { <<>>, <<" ">>, <<"*">>, <<"a", ".", "b">>,
      <<"a", "*", ",", "-", "a", ".", "b">>,
      <<"-", "a", ".", "b">>,
      <<"a", "x", "b", " ", "-", "*", "b">> }

\* Values of process.env.DEBUG when the module is loaded: unset or "a*"
EnvFilters == { <<>>, <<"a", "*">> }

\* The names the topic instances are created with: "a.b", "a.b#r", "axb"
RawNames == << <<"a", ".", "b">>, <<"a", ".", "b", "#", "r">>, <<"a", "x", "b">> >>

Instances == 1..Len(RawNames)

RECURSIVE IndexOf(_, _, _)
\* raw.indexOf(c), counted from position i; 0 when absent
IndexOf(s, c, i) ==
    IF i > Len(s) THEN 0 ELSE IF s[i] = c THEN i ELSE IndexOf(s, c, i + 1)

\* parseTopicSpec(raw).name: the text before "#", or raw when that is empty
ParseTopicSpecName(raw) ==
    LET i == IndexOf(raw, "#", 1) IN
    IF i = 0 THEN raw
    ELSE IF i = 1 THEN raw ELSE SubSeq(raw, 1, i - 1)

baseName(i) == ParseTopicSpecName(RawNames[i])

\* s.trim().length > 0
NonBlank(s) == \E j \in 1..Len(s) : s[j] # " "

\* currentFilterString(): RT_CFG.filter when it is a non-blank string, else
\* the DEBUG variable
CurrentFilterString(filter, env) == IF NonBlank(filter) THEN filter ELSE env

RECURSIVE SplitTokens(_, _, _)
\* envValue.split(/[\s,]+/).map(trim).filter(Boolean): cur is the token being read
SplitTokens(s, cur, out) ==
    IF s = <<>> THEN (IF cur = <<>> THEN out ELSE Append(out, cur))
    ELSE IF Head(s) \in {" ", ","}
         THEN SplitTokens(Tail(s), <<>>, IF cur = <<>> THEN out ELSE Append(out, cur))
         ELSE SplitTokens(Tail(s), Append(cur, Head(s)), out)

\* wildcardToRegExp: regex specials are escaped to literals, "*" becomes ".*",
\* and the pattern is anchored with ^ and $
WildcardToRegExp(pattern) ==
    [j \in 1..Len(pattern) |->
        IF pattern[j] = "*" THEN [kind |-> "star", c |-> "*"]
        ELSE [kind |-> "lit", c |-> pattern[j]]]

RECURSIVE RxTest(_, _)
\* rx.test(topic) for an anchored pattern; "." does not match a line terminator
RxTest(rx, s) ==
    IF rx = <<>> THEN s = <<>>
    ELSE IF Head(rx).kind = "star"
    THEN \E k \in 0..Len(s) :
            /\ \A j \in 1..k : s[j] # NL
            /\ RxTest(Tail(rx), SubSeq(s, k + 1, Len(s)))
    ELSE /\ s # <<>>
         /\ Head(rx).c = Head(s)
         /\ RxTest(Tail(rx), Tail(s))

RECURSIVE CompileTokens(_, _)
\* for (const t of tokens) { neg = t.startsWith("-"); (neg ? deny : allow).push(rx) }
CompileTokens(tokens, cfg) ==
    IF tokens = <<>> THEN cfg
    ELSE LET t   == Head(tokens)
             neg == Head(t) = "-"
             rx  == WildcardToRegExp(IF neg THEN Tail(t) ELSE t)
         IN  CompileTokens(Tail(tokens),
                 IF neg THEN [cfg EXCEPT !.deny = Append(@, rx)]
                 ELSE [cfg EXCEPT !.allow = Append(@, rx)])

\* parseDebugEnv(envValue)
ParseDebugEnv(envValue) ==
    IF envValue = <<>> THEN [allow |-> <<>>, deny |-> <<>>]
    ELSE CompileTokens(SplitTokens(envValue, <<>>, <<>>), [allow |-> <<>>, deny |-> <<>>])

\* (mutant) a pure deny list enables nothing
IsEnabledUncachedNoImplied(topic) ==
    /\ \E j \in 1..Len(FILTER_CFG.allow) : RxTest(FILTER_CFG.allow[j], topic)
    /\ ~ \E j \in 1..Len(FILTER_CFG.deny) : RxTest(FILTER_CFG.deny[j], topic)

\* isEnabledFor(topic) past the cache lookup
IsEnabledUncached(topic) ==
    LET allow == FILTER_CFG.allow
        deny  == FILTER_CFG.deny
    IN  IF Len(allow) = 0 /\ Len(deny) = 0 THEN FALSE
        ELSE LET impliedAllowAll == Len(allow) = 0 /\ Len(deny) > 0
                 allowed == impliedAllowAll \/ \E j \in 1..Len(allow) : RxTest(allow[j], topic)
                 denied  == \E j \in 1..Len(deny) : RxTest(deny[j], topic)
             IN  allowed /\ ~denied

\* isEnabledFor(topic): the cached answer if there is one, else the computed
\* answer, which is cached
IsEnabledFor(topic) ==
    IF \E e \in enabledCache : e.topic = topic
    THEN [result |-> (CHOOSE e \in enabledCache : e.topic = topic).value,
          cache  |-> enabledCache]
    ELSE [result |-> IsEnabledUncached(topic),
          cache  |-> enabledCache \cup {[topic |-> topic, value |-> IsEnabledUncached(topic)]}]

\* computePrintEnabled(): an explicit RT_CFG.print wins; an explicit filter
\* turns printing off; a filter that comes from DEBUG turns it on
ComputePrintEnabled(print, filter, env) ==
    IF print # << >> THEN print[1]
    ELSE IF NonBlank(filter) THEN FALSE
    ELSE NonBlank(env)

\* opts.print of the three topic instances: not given, true, false
TopicPrint == << << >>, <<TRUE>>, <<FALSE>> >>

\* The handlers a program attaches with extend(): h1 throws on every envelope
Handlers == { [id |-> "h1", throws |-> TRUE], [id |-> "h2", throws |-> FALSE] }

\* The arguments extend() is called with: the throwing handler alone, the
\* other handler with and without alsoPrint
ExtendArgs ==
    { [handler |-> h, alsoPrint |-> b] : h \in Handlers, b \in BOOLEAN } \
    { [handler |-> h, alsoPrint |-> TRUE] : h \in { x \in Handlers : x.throws } }

\* extend() calls in one behaviour
MaxExtends == 2

\* The instances handlers are attached to: one that prints by the global gate
\* and one that forces printing
SinkInstances == {1, 2}

\* The module-level state of topic.ts once loaded with DEBUG = env; no topic
\* has been called
TopicLoaded(env) ==
    /\ envDebug = env
    /\ rtFilter = <<>>
    /\ FILTER_CFG = ParseDebugEnv(CurrentFilterString(<<>>, env))
    /\ enabledCache = {}
    /\ seq = [i \in Instances |-> 0]
    /\ envelope = << >>
    /\ topicCalls = 0
    /\ rtPrint = << >>
    /\ PRINT_ENABLED = ComputePrintEnabled(<< >>, << >>, env)
    /\ extensions = [i \in Instances |-> << >>]
    /\ pending = << >>
    /\ ran = << >>
    /\ printed = << >>

----------------------------------------------------------------------------
(* Construction *)

\* The state the field initialisers leave, once impl and config are chosen
Constructed ==
    /\ fetchAvailable \in (IF impl = "worker" /\ config = BaseConfig
                           THEN BOOLEAN ELSE {TRUE})
    /\ socket = "undefined"
    /\ httpAgent = "undefined"
    /\ timer = "unset"
    /\ closed = FALSE
    /\ flushing = FALSE
    /\ q = <<>>
    /\ queuedBytes = 0
    /\ dropped = 0
    /\ droppedBytes = 0
    /\ sentBatches = 0
    /\ sentBytes = 0
    /\ failedFlushes = 0
    /\ lastError = "undefined"
    /\ lastFlushMs = << >>
    /\ inflight = <<>>
    /\ thrown = {}
    /\ calls = 0
    /\ encodeCalls = 0
    /\ drainedLines = 0
    /\ drainedBatches = 0

Init ==
    /\ impl \in {"node", "worker"}
    /\ config \in Configs(impl)
    /\ Constructed
    /\ TopicLoaded(<<>>)

InitQueue ==
    /\ impl \in {"node", "worker"}
    /\ config \in QueueConfigs
    /\ Constructed
    /\ TopicLoaded(<<>>)

InitEncode ==
    /\ impl \in {"node", "worker"}
    /\ config \in EncodeConfigs
    /\ Constructed
    /\ TopicLoaded(<<>>)

IsHttp(e) == e \in {"http", "https"}

\* The schemes connect() accepts
Supported(i, e) == IF i = "node" THEN e = "tcp" \/ IsHttp(e) ELSE IsHttp(e)

\* connect(): open the transport handle and start the flush timer, or throw
Connect ==
    /\ timer = "unset"
    /\ IF Supported(impl, config.endpoint)
       THEN /\ timer' = "active"
            /\ socket' = IF impl = "node" /\ config.endpoint = "tcp"
                         THEN "open" ELSE socket
            /\ httpAgent' = IF impl = "node" /\ IsHttp(config.endpoint) /\ config.keepAlive
                            THEN "agent" ELSE httpAgent
            /\ UNCHANGED thrown
       ELSE /\ thrown' = thrown \cup {"connect"}
            /\ UNCHANGED connvars
    /\ UNCHANGED <<topicvars, drainvars, encodeCalls, cfgvars, closed, flushing, queuevars, flushvars, inflight, calls>>

----------------------------------------------------------------------------
(* Producers *)

\* (mutant) the draw is compared with > instead of >=
SampledOutStrict(r) == config.sampleRate < 100 /\ r > config.sampleRate

\* Math.random() >= sampleRate, tested only when sampleRate < 1
SampledOut(r) == config.sampleRate < 100 /\ r >= config.sampleRate

\* (mutant) a sampled-out payload is counted with the bytes of its line
SendBodySampleCountsBytes(st, p, r) ==
    IF SampledOut(r)
    THEN [st EXCEPT !.dropped = @ + 1, !.droppedBytes = @ + Len(Frame(Encode(p).line))]
    ELSE LET e == Encode(p) IN
         IF e.threw THEN [st EXCEPT !.dropped = @ + 1]
         ELSE Enqueue(st, Frame(e.line))

\* The body of send(payload) on an open relay, with r the random draw
SendBody(st, p, r) ==
    IF SampledOut(r) THEN [st EXCEPT !.dropped = @ + 1]
    ELSE LET e == Encode(p) IN
         IF e.threw THEN [st EXCEPT !.dropped = @ + 1]
         ELSE Enqueue(st, Frame(e.line))

\* The body of sendLine(line) on an open relay: the Node relay frames and
\* enqueues the line, the Worker relay passes it to send()
SendLineBody(st, t, r) ==
    IF impl = "node" THEN Enqueue(st, Frame(t))
    ELSE SendBody(st, [kind |-> "str", s |-> t], r)

\* The body of sendChunk(chunk) on an open relay
SendChunkBody(st, t) == Enqueue(st, Frame(t))

\* (mutant) the producers do not test the closed flag
ProducerIgnoresClosed(st) ==
    /\ calls < MaxCalls
    /\ SetQueue(st) /\ calls' = calls + 1
    /\ UNCHANGED <<topicvars, drainvars, cfgvars, connvars, closed, flushing, flushvars, inflight, thrown>>

\* (mutant) an accepted line is sent at once: the producer hands the queue to
\* the transport
ProducerSendsNow(st) ==
    /\ calls < MaxCalls
    /\ IF closed THEN UNCHANGED <<queuevars, calls, inflight>>
       ELSE /\ SetQueue(st) /\ calls' = calls + 1
            /\ inflight' = Append(inflight, [data |-> Join(st.q), lane |-> "http"])
    /\ UNCHANGED <<topicvars, drainvars, cfgvars, connvars, closed, flushing, flushvars, thrown>>

\* A producer call: if (this.closed) return; otherwise the body st is applied
Producer(st) ==
    /\ calls < MaxCalls
    /\ IF closed THEN UNCHANGED <<queuevars, calls>>
       ELSE SetQueue(st) /\ calls' = calls + 1
    /\ UNCHANGED <<topicvars, drainvars, cfgvars, connvars, closed, flushing, flushvars, inflight, thrown>>

\* send(payload) on an open relay gets past sampling and the try block with
\* line === undefined: line.endsWith throws a TypeError out of send()
FramingThrows(p, r) == ~closed /\ ~SampledOut(r) /\ Encode(p).undef

\* (mutant) the encoder is applied before the sampling decision
EncoderReachedBeforeSampling(r) == ~closed

\* send() reaches the encoder call: the relay is open and the payload was not
\* sampled out
EncoderReached(r) == ~closed /\ ~SampledOut(r)

\* The count of config.encode calls after a send() with draw r
EncodeCallsAfter(r) ==
    IF EncoderReached(r) /\ config.encode = "custom"
    THEN encodeCalls + 1 ELSE encodeCalls

\* The effect of send(payload) on the queue and on its caller
SendQueue(p, r) ==
    IF FramingThrows(p, r)
    THEN /\ calls < MaxCalls
         /\ calls' = calls + 1
         /\ thrown' = thrown \cup {"send"}
         /\ UNCHANGED <<topicvars, drainvars, cfgvars, connvars, closed, flushing, queuevars, flushvars, inflight>>
    ELSE Producer(SendBody(QState, p, r))

\* send(payload)
Send(p, r) == SendQueue(p, r) /\ encodeCalls' = EncodeCallsAfter(r)

\* sendLine(line): the Worker relay goes through send()
SendLine(t, r) ==
    /\ Producer(SendLineBody(QState, t, r))
    /\ encodeCalls' = IF impl = "node" THEN encodeCalls ELSE EncodeCallsAfter(r)

\* sendChunk(chunk)
SendChunk(t) == Producer(SendChunkBody(QState, t)) /\ UNCHANGED encodeCalls

----------------------------------------------------------------------------
(* Flush scheduler and transport *)

RECURSIVE DrainLoopQueueLimit(_, _, _)
\* (mutant) the batch is bounded by maxQueueBytes instead of batchBytes
DrainLoopQueueLimit(rest, batch, bytes) ==
    IF Len(rest) > 0 /\ bytes + Len(Head(rest)) <= config.maxQueueBytes
    THEN DrainLoopQueueLimit(Tail(rest), Append(batch, Head(rest)), bytes + Len(Head(rest)))
    ELSE [q |-> rest, batch |-> batch, bytes |-> bytes]

RECURSIVE DrainLoopStrict(_, _, _)
\* (mutant) a line is taken only while the batch stays below batchBytes
DrainLoopStrict(rest, batch, bytes) ==
    IF Len(rest) > 0 /\ bytes + Len(Head(rest)) < config.batchBytes
    THEN DrainLoopStrict(Tail(rest), Append(batch, Head(rest)), bytes + Len(Head(rest)))
    ELSE [q |-> rest, batch |-> batch, bytes |-> bytes]

RECURSIVE DrainLoop(_, _, _)
\* while (q.length && bytes + q[0].length <= batchBytes) { batch.push(q.shift()); ... }
DrainLoop(rest, batch, bytes) ==
    IF Len(rest) > 0 /\ bytes + Len(Head(rest)) <= config.batchBytes
    THEN DrainLoop(Tail(rest), Append(batch, Head(rest)), bytes + Len(Head(rest)))
    ELSE [q |-> rest, batch |-> batch, bytes |-> bytes]

\* drainBatch(): the queue it leaves and the lines it took
DrainBatch(queue, tracked) ==
    IF queue = <<>> THEN [q |-> queue, queuedBytes |-> tracked, batch |-> <<>>]
    ELSE LET d == DrainLoop(queue, <<>>, 0)
         IN  [q |-> d.q, queuedBytes |-> tracked - d.bytes, batch |-> d.batch]

\* (mutant) an empty batch is sent like any other
NoDataNever(d) == FALSE

\* if (!data) return (Node) / if (batch.length === 0) return (Worker)
NoData(d) == IF impl = "node" THEN Join(d.batch) = <<>> ELSE d.batch = <<>>

\* (mutant) flushNow() without the flushing flag
FlushGuardNoFlag == ~closed

\* (mutant) flushNow() without the closed test
FlushGuardIgnoresClosed == ~flushing

\* The early returns of flushNow()
FlushGuard == ~closed /\ ~flushing

\* The lane the drained batch is handed to; "none" when the attempt fails at once
Lane ==
    IF impl = "node"
    THEN IF config.endpoint = "tcp" /\ socket = "open" THEN "tcp"
         ELSE IF IsHttp(config.endpoint) THEN "http" ELSE "none"
    ELSE IF fetchAvailable THEN "fetch" ELSE "none"

\* finally { if (lastFlushMs === undefined) lastFlushMs = Date.now() - started; }
FinallyMs(cur, ms) == IF cur = << >> THEN <<ms>> ELSE cur

\* One flush attempt up to its first await; ms is Date.now() - started
FlushAttempt(ms) ==
    IF ~FlushGuard THEN UNCHANGED vars
    ELSE LET d == DrainBatch(q, queuedBytes) IN
         /\ q' = d.q
         /\ queuedBytes' = d.queuedBytes
         /\ drainedLines' = drainedLines + Len(d.batch)
         /\ drainedBatches' = IF NoData(d) THEN drainedBatches ELSE drainedBatches + 1
         /\ UNCHANGED <<topicvars, encodeCalls, cfgvars, connvars, closed, dropped, droppedBytes, thrown, calls,
                        sentBatches, sentBytes>>
         /\ IF NoData(d)
            THEN UNCHANGED <<flushing, inflight, failedFlushes, lastError, lastFlushMs>>
            ELSE IF Lane = "none"
            THEN /\ failedFlushes' = failedFlushes + 1
                 /\ lastError' = IF impl = "node" THEN "unsupported endpoint"
                                 ELSE "fetch unavailable"
                 /\ lastFlushMs' = FinallyMs(lastFlushMs, ms)
                 /\ flushing' = FALSE
                 /\ UNCHANGED inflight
            ELSE /\ flushing' = TRUE
                 /\ inflight' = Append(inflight, [data |-> Join(d.batch), lane |-> Lane])
                 /\ UNCHANGED <<failedFlushes, lastError, lastFlushMs>>

\* flushNow() called by the application
FlushNow == \E ms \in Durations : FlushAttempt(ms)

\* A tick of the setInterval timer: flush() -> void flushNow()
Tick == timer = "active" /\ \E ms \in Durations : FlushAttempt(ms)

Remove(s, i) == SubSeq(s, 1, i - 1) \o SubSeq(s, i + 1, Len(s))

\* The Node relay counts the batch as sent whatever the callback reported
SendFailed(o) == IF impl = "node" THEN FALSE ELSE o # "ok"

\* (mutant) a batch whose send failed is put back at the head of the queue
CompleteRequeues(i, o, ms) ==
    /\ i \in 1..Len(inflight)
    /\ (o = "status") => inflight[i].lane \in {"http", "fetch"}
    /\ inflight' = Remove(inflight, i)
    /\ IF o # "ok"
       THEN /\ failedFlushes' = failedFlushes + 1
            /\ lastError' = "retry"
            /\ lastFlushMs' = FinallyMs(lastFlushMs, ms)
            /\ q' = <<inflight[i].data>> \o q
            /\ queuedBytes' = queuedBytes + Len(inflight[i].data)
            /\ UNCHANGED <<sentBatches, sentBytes, dropped, droppedBytes>>
       ELSE /\ sentBatches' = sentBatches + 1
            /\ sentBytes' = sentBytes + Len(inflight[i].data)
            /\ lastError' = "undefined"
            /\ lastFlushMs' = <<ms>>
            /\ UNCHANGED <<failedFlushes, queuevars>>
    /\ flushing' = FALSE
    /\ UNCHANGED <<topicvars, drainvars, encodeCalls, cfgvars, connvars, closed, thrown, calls>>

\* (mutant) a failed send leaves the flushing flag set
CompleteKeepsFlushing(i, o, ms) ==
    /\ i \in 1..Len(inflight)
    /\ (o = "status") => inflight[i].lane \in {"http", "fetch"}
    /\ inflight' = Remove(inflight, i)
    /\ IF o # "ok"
       THEN /\ failedFlushes' = failedFlushes + 1
            /\ lastError' = "failed"
            /\ lastFlushMs' = FinallyMs(lastFlushMs, ms)
            /\ UNCHANGED <<sentBatches, sentBytes, flushing>>
       ELSE /\ sentBatches' = sentBatches + 1
            /\ sentBytes' = sentBytes + Len(inflight[i].data)
            /\ lastError' = "undefined"
            /\ lastFlushMs' = <<ms>>
            /\ flushing' = FALSE
            /\ UNCHANGED failedFlushes
    /\ UNCHANGED <<topicvars, drainvars, encodeCalls, cfgvars, connvars, closed, queuevars, thrown, calls>>

\* (mutant) a successful send leaves the last error in place
CompleteKeepsError(i, o, ms) ==
    /\ i \in 1..Len(inflight)
    /\ (o = "status") => inflight[i].lane \in {"http", "fetch"}
    /\ inflight' = Remove(inflight, i)
    /\ IF SendFailed(o)
       THEN /\ failedFlushes' = failedFlushes + 1
            /\ lastError' = IF o = "error" THEN "fetch failed" ELSE "triager status"
            /\ lastFlushMs' = FinallyMs(lastFlushMs, ms)
            /\ UNCHANGED <<sentBatches, sentBytes>>
       ELSE /\ sentBatches' = sentBatches + 1
            /\ sentBytes' = sentBytes + Len(inflight[i].data)
            /\ lastFlushMs' = <<ms>>
            /\ UNCHANGED <<failedFlushes, lastError>>
    /\ flushing' = FALSE
    /\ UNCHANGED <<topicvars, drainvars, encodeCalls, cfgvars, connvars, closed, queuevars, thrown, calls>>

\* (mutant) the bytes of a batch whose send failed are counted as sent
CompleteFailureAddsBytes(i, o, ms) ==
    /\ i \in 1..Len(inflight)
    /\ (o = "status") => inflight[i].lane \in {"http", "fetch"}
    /\ inflight' = Remove(inflight, i)
    /\ sentBytes' = sentBytes + Len(inflight[i].data)
    /\ IF SendFailed(o)
       THEN /\ failedFlushes' = failedFlushes + 1
            /\ lastError' = IF o = "error" THEN "fetch failed" ELSE "triager status"
            /\ lastFlushMs' = FinallyMs(lastFlushMs, ms)
            /\ UNCHANGED sentBatches
       ELSE /\ sentBatches' = sentBatches + 1
            /\ lastError' = "undefined"
            /\ lastFlushMs' = <<ms>>
            /\ UNCHANGED failedFlushes
    /\ flushing' = FALSE
    /\ UNCHANGED <<topicvars, drainvars, encodeCalls, cfgvars, connvars, closed, queuevars, thrown, calls>>

\* The transport reports outcome o for the i-th batch in flight, ms after the
\* attempt started; flushNow() resumes after its await
Complete(i, o, ms) ==
    /\ i \in 1..Len(inflight)
    /\ (o = "status") => inflight[i].lane \in {"http", "fetch"}
    /\ inflight' = Remove(inflight, i)
    /\ IF SendFailed(o)
       THEN /\ failedFlushes' = failedFlushes + 1
            /\ lastError' = IF o = "error" THEN "fetch failed" ELSE "triager status"
            /\ lastFlushMs' = FinallyMs(lastFlushMs, ms)
            /\ UNCHANGED <<sentBatches, sentBytes>>
       ELSE /\ sentBatches' = sentBatches + 1
            /\ sentBytes' = sentBytes + Len(inflight[i].data)
            /\ lastError' = "undefined"
            /\ lastFlushMs' = <<ms>>
            /\ UNCHANGED failedFlushes
    /\ flushing' = FALSE
    /\ UNCHANGED <<topicvars, drainvars, encodeCalls, cfgvars, connvars, closed, queuevars, thrown, calls>>

\* (mutant) close() leaves the flushing flag as it is
CloseKeepsFlushing ==
    /\ closed' = TRUE
    /\ timer' = IF timer = "active" THEN "cleared" ELSE timer
    /\ socket' = "undefined"
    /\ UNCHANGED <<topicvars, drainvars, encodeCalls, cfgvars, httpAgent, flushing, queuevars, flushvars,
                   inflight, thrown, calls>>

\* (mutant) close() resets the counters
CloseResetsCounters ==
    /\ closed' = TRUE
    /\ flushing' = FALSE
    /\ timer' = IF timer = "active" THEN "cleared" ELSE timer
    /\ socket' = "undefined"
    /\ dropped' = 0 /\ droppedBytes' = 0
    /\ sentBatches' = 0 /\ sentBytes' = 0 /\ failedFlushes' = 0
    /\ UNCHANGED <<topicvars, drainvars, encodeCalls, cfgvars, httpAgent, q, queuedBytes, lastError, lastFlushMs,
                   inflight, thrown, calls>>

\* close()
Close ==
    /\ closed' = TRUE
    /\ flushing' = FALSE
    /\ timer' = IF timer = "active" THEN "cleared" ELSE timer
    /\ socket' = "undefined"
    /\ UNCHANGED <<topicvars, drainvars, encodeCalls, cfgvars, httpAgent, queuevars, flushvars, inflight, thrown, calls>>

----------------------------------------------------------------------------

Next ==
    \/ Connect
    \/ \E p \in Payloads, r \in RandomDraws : Send(p, r)
    \/ \E t \in Texts, r \in RandomDraws : SendLine(t, r)
    \/ \E t \in Texts : SendChunk(t)
    \/ FlushNow
    \/ Tick
    \/ \E i \in 1..Len(inflight), o \in Outcomes, ms \in Durations : Complete(i, o, ms)
    \/ Close

Spec == Init /\ [][Next]_vars

\* The queue of a relay that is used without connect(): the producers fill it,
\* flushNow() is the only trigger of a flush attempt (a timer tick takes the same
\* step), over the configurations that vary the ceilings and the drop policy
NextQueue ==
    \/ \E p \in Payloads, r \in RandomDraws : Send(p, r)
    \/ \E t \in Texts, r \in RandomDraws : SendLine(t, r)
    \/ \E t \in Texts : SendChunk(t)
    \/ FlushNow
    \/ \E i \in 1..Len(inflight), o \in Outcomes, ms \in Durations : Complete(i, o, ms)
    \/ Close

SpecQueue == InitQueue /\ [][NextQueue]_vars

\* The producers of a relay that is used without connect(), over the
\* configurations that vary sampling and the encoder, with every kind of payload
NextEncode ==
    \/ \E p \in Payloads \cup VoidPayloads, r \in RandomDraws : Send(p, r)
    \/ \E t \in Texts, r \in RandomDraws : SendLine(t, r)
    \/ \E t \in Texts : SendChunk(t)
    \/ FlushNow
    \/ \E i \in 1..Len(inflight), o \in Outcomes, ms \in Durations : Complete(i, o, ms)
    \/ Close

SpecEncode == InitEncode /\ [][NextEncode]_vars

----------------------------------------------------------------------------
(* Topic operations (topic.ts) *)

\* setDebug(value)
SetDebug(value) ==
    /\ rtFilter' = value
    /\ FILTER_CFG' = ParseDebugEnv(CurrentFilterString(value, envDebug))
    /\ enabledCache' = {}
    /\ PRINT_ENABLED' = ComputePrintEnabled(rtPrint, value, envDebug)
    /\ UNCHANGED <<envDebug, seq, envelope, topicCalls, rtPrint, sinkvars, relayvars>>

\* The values configureRatatouille() is called with, as the object it reads:
\* filter and print are << >> when the field is absent or of the wrong type;
\* valid is FALSE for undefined, a blank string or text that does not parse
ConfigValues ==
    { [valid |-> FALSE, filter |-> << >>, print |-> << >>] }
    \cup { [valid |-> TRUE, filter |-> f, print |-> p] :
             f \in { << >>, << <<"*">> >>, << <<"-", "a", ".", "b">> >>, << <<" ">> >> },
             p \in { << >>, <<TRUE>>, <<FALSE>> } }

\* (mutant) configureRatatouille() recompiles the filter and keeps the cache
ConfigureRatatouilleKeepsCache(value) ==
    IF ~value.valid THEN UNCHANGED vars
    ELSE LET filter == IF value.filter # << >> THEN value.filter[1] ELSE rtFilter
             print  == IF value.print # << >> THEN value.print ELSE rtPrint
         IN  /\ rtFilter' = filter
             /\ rtPrint' = print
             /\ FILTER_CFG' = ParseDebugEnv(CurrentFilterString(filter, envDebug))
             /\ PRINT_ENABLED' = ComputePrintEnabled(print, filter, envDebug)
             /\ UNCHANGED <<envDebug, enabledCache, seq, envelope, topicCalls, sinkvars, relayvars>>

\* configureRatatouille(value)
ConfigureRatatouille(value) ==
    IF ~value.valid THEN UNCHANGED vars
    ELSE LET filter == IF value.filter # << >> THEN value.filter[1] ELSE rtFilter
             print  == IF value.print # << >> THEN value.print ELSE rtPrint
         IN  /\ rtFilter' = filter
             /\ rtPrint' = print
             /\ FILTER_CFG' = ParseDebugEnv(CurrentFilterString(filter, envDebug))
             /\ enabledCache' = {}
             /\ PRINT_ENABLED' = ComputePrintEnabled(print, filter, envDebug)
             /\ UNCHANGED <<envDebug, seq, envelope, topicCalls, sinkvars, relayvars>>

\* setPrint(enabled)
SetPrint(enabled) ==
    /\ rtPrint' = <<enabled>>
    /\ PRINT_ENABLED' = ComputePrintEnabled(<<enabled>>, rtFilter, envDebug)
    /\ UNCHANGED <<envDebug, rtFilter, FILTER_CFG, enabledCache, seq, envelope, topicCalls,
                   sinkvars, relayvars>>

\* printGate of instance i: opts.print forces or suppresses, else PRINT_ENABLED
PrintGate(i) ==
    IF TopicPrint[i] = <<FALSE>> THEN FALSE
    ELSE IF TopicPrint[i] = <<TRUE>> THEN TRUE ELSE PRINT_ENABLED

\* shouldPrint: the gate is open, and no handler is attached or one of them
\* was attached with alsoPrint
ShouldPrint(i) ==
    /\ PrintGate(i)
    /\ \/ Len(extensions[i]) = 0
       \/ \E k \in 1..Len(extensions[i]) : extensions[i][k].alsoPrint

\* if (extensions.length): the call schedules the handlers
SinkGate(i) == Len(extensions[i]) > 0

\* What a call of instance i does once the topic is known to be enabled:
\* n = ++seq, the envelope, the handlers scheduled, the line printed
Emit(i) ==
    LET n == seq[i] + 1
        e == [inst |-> i, topic |-> baseName(i), seq |-> n]
    IN  /\ seq' = [seq EXCEPT ![i] = n]
        /\ envelope' = <<e>>
        /\ pending' = IF SinkGate(i) THEN Append(pending, e) ELSE pending
        /\ printed' = IF ShouldPrint(i) THEN <<e>> ELSE printed
        /\ UNCHANGED <<extensions, ran>>

\* (mutant) the counter is shared by all topic instances
TopicCallSharedSeq(i) ==
    /\ topicCalls < MaxTopicCalls
    /\ topicCalls' = topicCalls + 1
    /\ enabledCache' = IsEnabledFor(baseName(i)).cache
    /\ IF IsEnabledFor(baseName(i)).result
       THEN /\ seq' = [j \in Instances |-> seq[i] + 1]
            /\ envelope' = <<[inst |-> i, topic |-> baseName(i), seq |-> seq[i] + 1]>>
            /\ UNCHANGED sinkvars
       ELSE UNCHANGED <<seq, envelope, sinkvars>>
    /\ UNCHANGED <<envDebug, rtFilter, FILTER_CFG, rtPrint, PRINT_ENABLED, relayvars>>

\* A call of topic instance i: nothing happens unless the topic is enabled;
\* otherwise n = ++seq and the envelope carries seq: n
TopicCall(i) ==
    /\ topicCalls < MaxTopicCalls
    /\ topicCalls' = topicCalls + 1
    /\ enabledCache' = IsEnabledFor(baseName(i)).cache
    /\ IF IsEnabledFor(baseName(i)).result
       THEN Emit(i)
       ELSE UNCHANGED <<seq, envelope, sinkvars>>
    /\ UNCHANGED <<envDebug, rtFilter, FILTER_CFG, rtPrint, PRINT_ENABLED, relayvars>>

\* A read of the enabled property of topic instance i
ReadEnabled(i) ==
    /\ enabledCache' = IsEnabledFor(baseName(i)).cache
    /\ UNCHANGED <<envDebug, rtFilter, FILTER_CFG, seq, envelope, topicCalls,
                   rtPrint, PRINT_ENABLED, sinkvars, relayvars>>

RECURSIVE SumOfLens(_, _)
\* The number of handlers attached to the instances k..Len(RawNames)
SumOfLens(ext, k) ==
    IF k > Len(RawNames) THEN 0 ELSE Len(ext[k]) + SumOfLens(ext, k + 1)

\* topic.extend(handler, alsoPrint): extensions.push({ fn, alsoPrint })
Extend(i, h, alsoPrint) ==
    /\ SumOfLens(extensions, 1) < MaxExtends
    /\ extensions' = [extensions EXCEPT ![i] = Append(@, [fn |-> h, alsoPrint |-> alsoPrint])]
    /\ UNCHANGED <<envDebug, rtFilter, FILTER_CFG, enabledCache, seq, envelope, topicCalls,
                   rtPrint, PRINT_ENABLED, pending, ran, printed, relayvars>>

RECURSIVE RunHandlersUntilThrow(_, _, _)
\* (mutant) the loop ends at the first handler that throws
RunHandlersUntilThrow(exts, k, log) ==
    IF k > Len(exts) THEN log
    ELSE IF exts[k].fn.throws THEN Append(log, exts[k].fn.id)
    ELSE RunHandlersUntilThrow(exts, k + 1, Append(log, exts[k].fn.id))

RECURSIVE RunHandlers(_, _, _)
\* for (const h of extensions) { try { h.fn(envelope) } catch { } }: the
\* handlers called, in order; a throw is swallowed and the loop goes on
RunHandlers(exts, k, log) ==
    IF k > Len(exts) THEN log
    ELSE RunHandlers(exts, k + 1, Append(log, exts[k].fn.id))

\* The timer set by setTimeout(call, 0) fires: call() runs the handlers that
\* are attached to the instance by then, on the envelope of the call
TimerFires ==
    /\ pending # << >>
    /\ ran' = <<[envelope |-> Head(pending),
                 fns |-> RunHandlers(extensions[Head(pending).inst], 1, << >>)]>>
    /\ pending' = Tail(pending)
    /\ UNCHANGED <<envDebug, rtFilter, FILTER_CFG, enabledCache, seq, envelope, topicCalls,
                   rtPrint, PRINT_ENABLED, extensions, printed, relayvars>>

\* The topic module loaded with some DEBUG value, beside an unused relay
InitTopic ==
    /\ impl = "node"
    /\ config = BaseConfig
    /\ Constructed
    /\ \E env \in EnvFilters : TopicLoaded(env)

NextTopic ==
    \/ \E value \in Filters : SetDebug(value)
    \/ \E value \in ConfigValues : ConfigureRatatouille(value)
    \/ \E enabled \in BOOLEAN : SetPrint(enabled)
    \/ \E i \in Instances : TopicCall(i)
    \/ \E i \in Instances : ReadEnabled(i)

SpecTopic == InitTopic /\ [][NextTopic]_vars

\* The topic module loaded without DEBUG, beside an unused relay
InitSink ==
    /\ impl = "node"
    /\ config = BaseConfig
    /\ Constructed
    /\ TopicLoaded(<< >>)

\* The handlers of the topic instances: the filter is set to "*", printing is
\* switched on and off, handlers are attached, topics are called and the
\* timers fire
NextSink ==
    \/ SetDebug(<<"*">>)
    \/ \E enabled \in BOOLEAN : SetPrint(enabled)
    \/ \E i \in SinkInstances, a \in ExtendArgs : Extend(i, a.handler, a.alsoPrint)
    \/ \E i \in SinkInstances : TopicCall(i)
    \/ TimerFires

SpecSink == InitSink /\ [][NextSink]_vars

----------------------------------------------------------------------------
(* Scheduling assumptions *)

\* The configurations with a tcp:// or an http:// endpoint
LiveConfigs(i) == { c \in LaneConfigs(i) : c.given \in {"tcp", "http"} /\ c.keepAlive }

\* The relay on the stream lane and on the request lane
InitLive ==
    /\ impl \in {"node", "worker"}
    /\ config \in LiveConfigs(impl)
    /\ Constructed
    /\ TopicLoaded(<<>>)

\* The transport reports the outcome of some send in flight
Completes == \E i \in 1..Len(inflight), o \in Outcomes, ms \in Durations : Complete(i, o, ms)

\* Every send handed to the transport completes (the callback of socket.write,
\* the end or error event of the request, the settling of fetch), and the
\* setInterval timer keeps ticking while it is active
SpecLive == InitLive /\ [][Next]_vars /\ WF_vars(Completes) /\ WF_vars(Tick)

----------------------------------------------------------------------------
(* The queue code of the Worker relay (relay.worker.ts), translated on its  *)
(* own: st is the queue state the method starts from                        *)

RECURSIVE WorkerDropLoop(_, _)
\* while (q.length && queuedBytes + bytes > maxQueueBytes) { old = q.shift();
\* if (!old) break; queuedBytes -= old.length; dropped++; droppedBytes += old.length }
WorkerDropLoop(st, bytes) ==
    IF Len(st.q) = 0 \/ ~(st.queuedBytes + bytes > config.maxQueueBytes) THEN st
    ELSE LET old  == Head(st.q)
             rest == [st EXCEPT !.q = Tail(st.q)]
         IN  IF Len(old) = 0 THEN rest
             ELSE WorkerDropLoop([rest EXCEPT !.queuedBytes = @ - Len(old),
                                              !.dropped = @ + 1,
                                              !.droppedBytes = @ + Len(old)], bytes)

\* The secondary guard of the Worker's ensureCapacity, from the state s1 the
\* primary guard leaves
WorkerCountGuard(s1) ==
    IF Len(s1.q) + 1 > config.maxQueue
    THEN IF config.dropPolicy = "drop_newest" THEN [fits |-> FALSE, st |-> s1]
         ELSE LET s2 == IF Len(s1.q) = 0 THEN s1
                        ELSE IF Len(Head(s1.q)) = 0 THEN [s1 EXCEPT !.q = Tail(s1.q)]
                        ELSE [s1 EXCEPT !.q = Tail(s1.q),
                                        !.queuedBytes = @ - Len(Head(s1.q)),
                                        !.dropped = @ + 1,
                                        !.droppedBytes = @ + Len(Head(s1.q))]
              IN  IF Len(s2.q) + 1 > config.maxQueue
                  THEN [fits |-> FALSE, st |-> s2] ELSE [fits |-> TRUE, st |-> s2]
    ELSE [fits |-> TRUE, st |-> s1]

\* (mutant) the Worker's ensureCapacity tests the bytes only
WorkerEnsureCapacityBytesOnly(st, bytes) ==
    IF st.queuedBytes + bytes > config.maxQueueBytes
    THEN IF config.dropPolicy = "drop_newest" THEN [fits |-> FALSE, st |-> st]
         ELSE LET s1 == WorkerDropLoop(st, bytes) IN
              IF s1.queuedBytes + bytes > config.maxQueueBytes
              THEN [fits |-> FALSE, st |-> s1] ELSE [fits |-> TRUE, st |-> s1]
    ELSE [fits |-> TRUE, st |-> st]

\* Worker ensureCapacity(bytes)
WorkerEnsureCapacity(st, bytes) ==
    IF st.queuedBytes + bytes > config.maxQueueBytes
    THEN IF config.dropPolicy = "drop_newest" THEN [fits |-> FALSE, st |-> st]
         ELSE LET s1 == WorkerDropLoop(st, bytes) IN
              IF s1.queuedBytes + bytes > config.maxQueueBytes
              THEN [fits |-> FALSE, st |-> s1] ELSE WorkerCountGuard(s1)
    ELSE WorkerCountGuard(st)

\* The Worker's steps from the framing of the line to q.push, the same text in
\* send() and in sendChunk()
WorkerFrameAndQueue(st, text) ==
    LET data == IF EndsWithNL(text) THEN text ELSE text \o <<NL>> IN
    IF Len(data) > config.batchBytes
    THEN [st EXCEPT !.dropped = @ + 1, !.droppedBytes = @ + Len(data)]
    ELSE LET c == WorkerEnsureCapacity(st, Len(data)) IN
         IF ~c.fits
         THEN [c.st EXCEPT !.dropped = @ + 1, !.droppedBytes = @ + Len(data)]
         ELSE [c.st EXCEPT !.q = @ \o <<data>>, !.queuedBytes = @ + Len(data)]

\* Worker send(payload) on an open relay, with r the random draw
WorkerSend(st, p, r) ==
    IF config.sampleRate < 100 /\ r >= config.sampleRate
    THEN [st EXCEPT !.dropped = @ + 1]
    ELSE IF Encode(p).threw THEN [st EXCEPT !.dropped = @ + 1]
    ELSE WorkerFrameAndQueue(st, Encode(p).line)

\* Worker sendChunk(chunk) on an open relay
WorkerSendChunk(st, t) == WorkerFrameAndQueue(st, t)

RECURSIVE WorkerDrainLoop(_, _, _)
\* The drain loop inside the Worker's flushNow()
WorkerDrainLoop(rest, batch, bytes) ==
    IF Len(rest) = 0 \/ ~(bytes + Len(Head(rest)) <= config.batchBytes)
    THEN [q |-> rest, batch |-> batch, bytes |-> bytes]
    ELSE WorkerDrainLoop(Tail(rest), batch \o <<Head(rest)>>, bytes + Len(Head(rest)))

\* The batch drain of the Worker's flushNow(): if (q.length === 0) return; the
\* loop; queuedBytes -= bytes
WorkerDrain(queue, tracked) ==
    IF Len(queue) = 0 THEN [q |-> queue, queuedBytes |-> tracked, batch |-> <<>>]
    ELSE LET d == WorkerDrainLoop(queue, <<>>, 0)
         IN  [q |-> d.q, queuedBytes |-> tracked - d.bytes, batch |-> d.batch]

----------------------------------------------------------------------------
(* Properties *)

\* s without its first k elements
DropFirst(s, k) == SubSeq(s, k + 1, Len(s))

\* The first k elements of s
TakeFirst(s, k) == SubSeq(s, 1, k)

\* The framed line send(p) offers to the queue with random draw r (its line
\* reaches the oversize check), or << >> when the call is sampled out or the
\* encoder throws
LineOfSend(p, r) ==
    IF SampledOut(r) \/ Encode(p).threw THEN <<>> ELSE Frame(Encode(p).line)

\* The framed line sendLine(t) offers to the queue
LineOfSendLine(t, r) ==
    IF impl = "node" THEN Frame(t) ELSE LineOfSend([kind |-> "str", s |-> t], r)

\* P(data) holds of this step for every framed line data that the step, taken
\* as a send(), sendLine() or sendChunk() call on an open relay, offers to the queue
ForOffered(P(_)) ==
    (calls' = calls + 1 /\ ~closed)
    => /\ \A t \in Texts : SendChunk(t) => P(Frame(t))
       /\ \A t \in Texts, r \in RandomDraws :
            (LineOfSendLine(t, r) # <<>> /\ SendLine(t, r)) => P(LineOfSendLine(t, r))
       /\ \A p \in Payloads, r \in RandomDraws :
            (LineOfSend(p, r) # <<>> /\ Send(p, r)) => P(LineOfSend(p, r))

\* This step is a flush attempt (timer tick or flushNow()) that passes the guard
Attempts == FlushGuard /\ (FlushNow \/ Tick)

\* C1: at most one batch send is in flight per Relay instance, in every
\* interleaving of ticks, flushNow() calls, completions and close()
ThmC1_OneInFlight == Len(inflight) <= 1

\* close() has reset the flushing flag while a send is still in flight
WitC1_CloseDuringSend == closed /\ ~flushing /\ Len(inflight) = 1 /\ q # <<>>

\* C2: the tracked byte count equals the sum of the lengths of the queued lines
ThmC2_TrackedBytesExact == queuedBytes = SumLen(q)

\* Lines were evicted and a batch was drained, and lines are still queued
WitC2_AfterEvictAndDrain ==
    /\ dropped > 0 /\ droppedBytes > 0
    /\ sentBatches + failedFlushes + Len(inflight) > 0
    /\ q # <<>>

\* C3: the number of queued lines is at most maxQueue and the tracked byte
\* count at most maxQueueBytes, under both drop policies
ThmC3_WithinCeilings ==
    /\ Len(q) <= config.maxQueue
    /\ queuedBytes <= config.maxQueueBytes

\* The queue is full by count after an eviction made room for the last line
WitC3_FullAfterEviction ==
    /\ Len(q) = config.maxQueue /\ config.maxQueue > 0
    /\ dropped > 0 /\ calls > config.maxQueue
    /\ config.dropPolicy = "drop_oldest"

\* C4: a line longer than batchBytes is never in the queue; a call that offers
\* one leaves the queue and the tracked byte count unchanged and counts the
\* line as dropped (dropped + 1, droppedBytes + its length)
ThmC4_OversizeRejected ==
    /\ [](\A i \in 1..Len(q) : Len(q[i]) <= config.batchBytes)
    /\ [][ForOffered(LAMBDA data :
            Len(data) > config.batchBytes
            => /\ q' = q
               /\ queuedBytes' = queuedBytes
               /\ dropped' = dropped + 1
               /\ droppedBytes' = droppedBytes + Len(data))]_vars

\* A single call offered an oversize line to a queue that had room for it
WitC4_OversizeDropped ==
    /\ calls = 2 /\ Len(q) = 1 /\ dropped = 1
    /\ droppedBytes > config.batchBytes
    /\ droppedBytes + queuedBytes <= config.maxQueueBytes

\* The least number of head evictions after which a line of n bytes fits both ceilings
Needed(n) ==
    CHOOSE k \in 0..Len(q) :
        /\ SumLen(DropFirst(q, k)) + n <= config.maxQueueBytes
        /\ Len(q) - k + 1 <= config.maxQueue
        /\ \A j \in 0..(k - 1) :
             ~(/\ SumLen(DropFirst(q, j)) + n <= config.maxQueueBytes
               /\ Len(q) - j + 1 <= config.maxQueue)

\* The line fits under the ceilings by itself
FitsAlone(data) ==
    /\ Len(data) <= config.batchBytes
    /\ Len(data) <= config.maxQueueBytes
    /\ 1 <= config.maxQueue

\* C5: under drop_oldest, a line that fits under the ceilings is appended after
\* evicting from the head, oldest first, exactly as many lines as are needed
\* for it to fit: the new queue is a suffix of the old one, then the new line
ThmC5_DropOldestEvictsHead ==
    [][ForOffered(LAMBDA data :
         (config.dropPolicy = "drop_oldest" /\ FitsAlone(data))
         => q' = Append(DropFirst(q, Needed(Len(data))), data))]_vars

\* Two lines were evicted for one incoming line, which is now the tail
WitC5_EvictedSeveral ==
    /\ config.dropPolicy = "drop_oldest"
    /\ calls = 3 /\ dropped = 2 /\ Len(q) = 1
    /\ droppedBytes + queuedBytes > config.maxQueueBytes
    /\ droppedBytes <= config.batchBytes

\* The line does not fit in the queue as it is
Exceeds(data) ==
    \/ queuedBytes + Len(data) > config.maxQueueBytes
    \/ Len(q) + 1 > config.maxQueue

\* C6: under drop_newest, a line that would exceed the byte ceiling or the
\* line-count ceiling is rejected and the queue (contents, order, tracked
\* byte count) is unchanged
ThmC6_DropNewestKeepsQueue ==
    [][ForOffered(LAMBDA data :
         (config.dropPolicy = "drop_newest" /\ Exceeds(data))
         => /\ q' = q
            /\ queuedBytes' = queuedBytes)]_vars

\* A line was rejected by a full queue that kept its lines
WitC6_RejectedWhenFull ==
    /\ config.dropPolicy = "drop_newest"
    /\ calls = 3 /\ dropped = 1 /\ Len(q) = 2
    /\ droppedBytes > 0 /\ droppedBytes <= config.batchBytes

\* C7: a call that offers a line which is not oversize evicts k lines from the
\* head and accepts or rejects the line; dropped grows by 1 for every evicted
\* line and by 1 for the rejected line, droppedBytes by their lengths
ThmC7_DropAccounting ==
    [][ForOffered(LAMBDA data :
         Len(data) <= config.batchBytes
         => \E k \in 0..Len(q), rejected \in {0, 1} :
              /\ q' = DropFirst(q, k) \o (IF rejected = 1 THEN <<>> ELSE <<data>>)
              /\ dropped' = dropped + k + rejected
              /\ droppedBytes' = droppedBytes + SumLen(TakeFirst(q, k))
                                 + rejected * Len(data))]_vars

\* maxQueue = 2 under drop_oldest: three 2-byte lines leave the last two queued,
\* dropped = 1 and droppedBytes = 2
WitC7_ScenarioA ==
    /\ config.dropPolicy = "drop_oldest" /\ config.maxQueue = 2
    /\ config.maxQueueBytes = 8
    /\ calls = 3 /\ Len(q) = 2 /\ queuedBytes = 4
    /\ dropped = 1 /\ droppedBytes = 2
    /\ sentBatches + failedFlushes + Len(inflight) = 0

\* The length of the longest prefix of the queue that fits in one batch
LongestPrefix ==
    CHOOSE k \in 0..Len(q) :
        /\ SumLen(TakeFirst(q, k)) <= config.batchBytes
        /\ \A j \in (k + 1)..Len(q) : SumLen(TakeFirst(q, j)) > config.batchBytes

\* C8: a flush attempt drains the longest prefix of the queue whose total
\* length is at most batchBytes, leaves the other lines queued in order,
\* subtracts the drained bytes from the tracked byte count, and the batch it
\* hands to the transport is the concatenation of the drained lines
ThmC8_DrainLongestPrefix ==
    [][Attempts
       => LET k == LongestPrefix IN
          /\ q' = DropFirst(q, k)
          /\ queuedBytes' = queuedBytes - SumLen(TakeFirst(q, k))
          /\ inflight' # inflight
             => inflight'[Len(inflight')].data = Join(TakeFirst(q, k))]_vars

\* Three 2-byte lines with batchBytes = 5: two lines are in the batch in
\* flight and the third is still queued
WitC8_ScenarioB ==
    /\ config.batchBytes = 5 /\ calls = 3 /\ dropped = 0
    /\ Len(inflight) = 1 /\ Len(inflight[1].data) = 4
    /\ Len(q) = 1 /\ queuedBytes = 2

\* C9: when a request-lane flush ends with a network error or a non-success
\* status, failedFlushes grows by exactly 1, lastError is set, and sentBatches
\* and sentBytes do not grow for that batch
CexC9_RequestFailureCounted ==
    [][\A i \in 1..Len(inflight), o \in {"status", "error"}, ms \in Durations :
         (inflight[i].lane \in {"http", "fetch"} /\ Complete(i, o, ms))
         => /\ failedFlushes' = failedFlushes + 1
            /\ lastError' # "undefined"
            /\ sentBatches' = sentBatches
            /\ sentBytes' = sentBytes]_vars

\* C10: when a stream-lane batch write fails, the error is counted as a
\* failure (failedFlushes, lastError) and is not thrown to the caller of
\* flushNow() or to the timer
CexC10_StreamFailureCounted ==
    [][\A i \in 1..Len(inflight), ms \in Durations :
         (inflight[i].lane = "tcp" /\ Complete(i, "error", ms))
         => /\ failedFlushes' = failedFlushes + 1
            /\ lastError' # "undefined"
            /\ "flushNow" \notin thrown']_vars

\* q2 is what is left of q1 after removing lines from its head
IsSuffix(q2, q1) == \E k \in 0..Len(q1) : q2 = DropFirst(q1, k)

\* C11: a drained batch is handed to the transport at most once and is never
\* put back in the queue. Lines enter the queue only through a producer call;
\* every other step leaves a suffix of the queue; a batch handed to the
\* transport is made of the lines the same step removed from the head of the
\* queue; and the completion of a send, failed or not, leaves the queue
\* untouched and hands nothing to the transport again
ThmC11_HandedOnceNeverRequeued ==
    [][/\ (calls' = calls) => IsSuffix(q', q)
       /\ (Len(inflight') > Len(inflight))
          => \E k \in 1..Len(q) :
               /\ q' = DropFirst(q, k)
               /\ queuedBytes' = queuedBytes - SumLen(TakeFirst(q, k))
               /\ inflight' = Append(inflight, [data |-> Join(TakeFirst(q, k)), lane |-> Lane])
       /\ (Len(inflight') < Len(inflight))
          => /\ q' = q /\ queuedBytes' = queuedBytes
             /\ \E i \in 1..Len(inflight) : inflight' = Remove(inflight, i)]_vars

\* Three accepted 2-byte lines: the first batch of two failed, and the next
\* flush sent only the third line
WitC11_FailedThenNextBatch ==
    /\ calls = 3 /\ dropped = 0 /\ q = <<>> /\ inflight = <<>>
    /\ failedFlushes = 1 /\ sentBatches = 1 /\ sentBytes = 2

\* The schemes the implementation documents as supported
SupportedSchemes == IF impl = "node" THEN {"tcp", "http", "https"} ELSE {"http", "https"}

\* C12: connect() on an endpoint whose scheme the implementation does not
\* support (Node: anything but tcp, http, https; Worker: anything but http,
\* https) raises a configuration error, starts no timer and creates no
\* transport handle
CexC12_UnsupportedSchemeRaises ==
    [][(config.given \notin SupportedSchemes /\ Connect)
       => /\ "connect" \in thrown'
          /\ timer' = "unset"
          /\ socket' = "undefined" /\ httpAgent' = "undefined"]_vars

\* C13: after close(), send(), sendLine() and sendChunk() are no-ops. On a
\* closed relay no step changes the queue, the tracked byte count or the drop
\* counters, and the sent and failure counters change only when a send that
\* was in flight at close() completes
ThmC13_ClosedProducersNoOp ==
    [][closed
       => /\ q' = q /\ queuedBytes' = queuedBytes
          /\ dropped' = dropped /\ droppedBytes' = droppedBytes
          /\ (inflight' = inflight)
             => /\ sentBatches' = sentBatches /\ sentBytes' = sentBytes
                /\ failedFlushes' = failedFlushes]_vars

\* A closed relay with lines still queued on which producers can still be called
WitC13_ClosedWithQueue ==
    closed /\ q # <<>> /\ calls < MaxCalls /\ dropped > 0 /\ inflight = <<>>

\* The connection state close() leaves behind
AfterClose == closed /\ ~flushing /\ timer # "active" /\ socket = "undefined"

\* C14: close() is idempotent and terminal. Once the relay is closed it stays
\* closed, no flush attempt drains the queue or hands a batch to the transport
\* (by a timer tick or by flushNow()), and a close() in the state a close()
\* has left changes nothing
ThmC14_CloseTerminal ==
    [][/\ closed => /\ closed' /\ ~flushing'
                    /\ q' = q /\ queuedBytes' = queuedBytes
                    /\ Len(inflight') <= Len(inflight)
       /\ AfterClose => ~Close]_vars

\* A closed relay with lines queued and nothing in flight, whose timer was
\* started by connect() after close() and ticks
WitC14_ClosedTimerTicks ==
    closed /\ timer = "active" /\ q # <<>> /\ inflight = <<>> /\ ~flushing

\* P(p, r) holds of this step for every payload p and draw r with which the
\* step is a send(p) call on an open relay
ForSend(P(_, _)) ==
    (calls' = calls + 1 /\ ~closed)
    => \A p \in Payloads \cup VoidPayloads, r \in RandomDraws : Send(p, r) => P(p, r)

\* The step counts one drop and changes nothing else of the queue
DropsWithoutBytes ==
    /\ dropped' = dropped + 1 /\ droppedBytes' = droppedBytes
    /\ q' = q /\ queuedBytes' = queuedBytes

\* C15: with sampleRate = 0 every send() is dropped (dropped grows by one,
\* nothing is enqueued); with sampleRate = 1 no send() is dropped for
\* sampling: a payload the encoder produces a line for is enqueued or is
\* dropped with its bytes counted, as an oversize or capacity drop is
ThmC15_SamplingExtremes ==
    [][ForSend(LAMBDA p, r :
         /\ (config.sampleRate = 0) => (DropsWithoutBytes /\ thrown' = thrown)
         /\ (config.sampleRate = 100 /\ ~Encode(p).threw /\ ~Encode(p).undef)
            => ~DropsWithoutBytes)]_vars

\* Three send() calls with sampleRate = 0: three drops, nothing queued
WitC15_AllSampledOut ==
    /\ config.sampleRate = 0 /\ calls = 3
    /\ dropped = 3 /\ droppedBytes = 0 /\ q = <<>> /\ queuedBytes = 0

\* The encoder does not produce a line for payload p
EncodingFails(p) == Encode(p).threw \/ Encode(p).undef

\* C16: an encoding failure inside send() (the default or the caller-supplied
\* encoder fails to produce a line for the payload) is never thrown past
\* send(); it is counted as one drop and the queue and the tracked byte count
\* are unchanged
CexC16_EncodeFailureIsDrop ==
    [][ForSend(LAMBDA p, r :
         (~SampledOut(r) /\ EncodingFails(p))
         => /\ thrown' = thrown
            /\ dropped' = dropped + 1
            /\ q' = q /\ queuedBytes' = queuedBytes)]_vars

\* The step offers the line data to the queue as ensureCapacity and push
\* handle it: the queue loses head lines and gains data at its tail, or data is
\* dropped with its bytes counted
EnqueuedOrDroppedWithBytes(data) ==
    \/ \E k \in 0..Len(q) : q' = DropFirst(q, k) \o <<data>>
    \/ /\ dropped' > dropped
       /\ droppedBytes' >= droppedBytes + Len(data)
       /\ IsSuffix(q', q)

\* C17: sendLine() and sendChunk() bypass the encoder: the text is not
\* wrapped in an envelope, only a missing trailing newline is added, and the
\* line is dropped only as oversize or for capacity
CexC17_RawLinesBypassEncoder ==
    [][(calls' = calls + 1 /\ ~closed)
       => /\ \A t \in Texts : SendChunk(t) => EnqueuedOrDroppedWithBytes(Frame(t))
          /\ \A t \in Texts, r \in RandomDraws :
               SendLine(t, r) => EnqueuedOrDroppedWithBytes(Frame(t))]_vars

\* q2 is q1 with lines removed from its head and at most one line added at its tail
TailAppend(q2, q1) ==
    \E k \in 0..Len(q1) :
        \/ q2 = DropFirst(q1, k)
        \/ /\ Len(q2) = Len(q1) - k + 1
           /\ TakeFirst(q2, Len(q2) - 1) = DropFirst(q1, k)

\* C18: the lines handed to the transport, over all batches in the order they
\* are sent, are a subsequence of the accepted lines in the order they were
\* enqueued. The queue is first-in first-out at every step: a producer call
\* adds its line behind all queued lines, the lines of a batch are the head
\* of the queue concatenated in queue order, the lines left behind keep their
\* order, and a batch is handed over only when no earlier batch is in flight
ThmC18_FifoOrder ==
    [][/\ (calls' = calls + 1) => (TailAppend(q', q) /\ inflight' = inflight)
       /\ (calls' = calls) => IsSuffix(q', q)
       /\ (inflight' # inflight /\ Len(inflight') >= Len(inflight))
          => /\ inflight = <<>>
             /\ \E k \in 1..Len(q) :
                  /\ inflight' = <<[data |-> Join(TakeFirst(q, k)), lane |-> Lane]>>
                  /\ q' = DropFirst(q, k)]_vars

\* Three accepted lines left the queue in two batches, the first already
\* completed and the second in flight
WitC18_TwoBatchesInOrder ==
    /\ calls = 3 /\ dropped = 0 /\ q = <<>>
    /\ sentBatches + failedFlushes = 1 /\ Len(inflight) = 1

\* C19: dropped, droppedBytes, sentBatches, sentBytes and failedFlushes never
\* decrease during the lifetime of a relay
ThmC19_CountersMonotonic ==
    [][/\ dropped' >= dropped
       /\ droppedBytes' >= droppedBytes
       /\ sentBatches' >= sentBatches
       /\ sentBytes' >= sentBytes
       /\ failedFlushes' >= failedFlushes]_vars

\* Every counter has grown and the relay has been closed
WitC19_AllCountersGrown ==
    /\ closed
    /\ dropped > 0 /\ droppedBytes > 0
    /\ sentBatches > 0 /\ sentBytes > 0 /\ failedFlushes > 0

\* C20: send(), sendLine() and sendChunk() never start transport I/O. A
\* producer call leaves the batches in flight, the flushing flag, the flush
\* counters and the connection untouched, and a batch is handed to the
\* transport only by a flush attempt, that is by a timer tick or flushNow()
ThmC20_ProducersDoNoIO ==
    [][/\ (calls' = calls + 1)
          => /\ inflight' = inflight /\ flushing' = flushing
             /\ UNCHANGED <<flushvars, connvars>>
       /\ (Len(inflight') > Len(inflight)) => (calls' = calls /\ Attempts)]_vars

\* Three producer calls on a connected relay have filled the queue and no
\* batch has been handed to the transport
WitC20_QueuedNothingSent ==
    /\ calls = 3 /\ q # <<>> /\ timer = "active" /\ ~closed
    /\ inflight = <<>> /\ ~flushing
    /\ sentBatches = 0 /\ failedFlushes = 0 /\ lastFlushMs = << >>

\* C21: the transport handle created by connect() is destroyed by close():
\* once close() has run (and connect() has not been called again since) the
\* instance holds no live socket and no live HTTP agent, on both lanes
CexC21_CloseDestroysHandle ==
    (closed /\ timer # "active") => (socket = "undefined" /\ httpAgent = "undefined")

----------------------------------------------------------------------------
(* Properties of topics *)

\* Topic names the rule is checked for: "a.b", "axb", "a", "cb"
TopicNames == { <<"a", ".", "b">>, <<"a", "x", "b">>, <<"a">>, <<"c", "b">> }

\* The filter string in effect
EffectiveFilter == CurrentFilterString(rtFilter, envDebug)

\* The patterns of a filter string: its maximal runs without a comma or a space
Tokens(f) ==
    { SubSeq(f, i, j) : <<i, j>> \in
        { ij \in (1..Len(f)) \X (1..Len(f)) :
            /\ ij[1] <= ij[2]
            /\ \A k \in ij[1]..ij[2] : f[k] \notin {" ", ","}
            /\ (ij[1] = 1 \/ f[ij[1] - 1] \in {" ", ","})
            /\ (ij[2] = Len(f) \/ f[ij[2] + 1] \in {" ", ","}) } }

AllowPatterns(f) == { t \in Tokens(f) : t[1] # "-" }

DenyPatterns(f) == { Tail(t) : t \in { u \in Tokens(f) : u[1] = "-" } }

RECURSIVE GlobMatches(_, _)
\* name matches pat, where "*" stands for any run of characters and every
\* other character for itself
GlobMatches(pat, name) ==
    LET i == IndexOf(pat, "*", 1) IN
    IF i = 0 THEN pat = name
    ELSE /\ Len(name) >= i - 1
         /\ SubSeq(name, 1, i - 1) = SubSeq(pat, 1, i - 1)
         /\ \E k \in (i - 1)..Len(name) :
                GlobMatches(SubSeq(pat, i + 1, Len(pat)), SubSeq(name, k + 1, Len(name)))

\* The documented allow/deny rule
DocumentedRule(f, name) ==
    LET allow == AllowPatterns(f)
        deny  == DenyPatterns(f)
    IN  IF allow = {} /\ deny = {} THEN FALSE
        ELSE IF allow = {} THEN ~ \E d \in deny : GlobMatches(d, name)
        ELSE /\ \E a \in allow : GlobMatches(a, name)
             /\ ~ \E d \in deny : GlobMatches(d, name)

\* C22: topic enabling follows the documented allow/deny rule for every
\* filter string and topic name: with both lists empty the topic is disabled,
\* with only deny patterns it is enabled unless it matches one, otherwise it is
\* enabled iff it matches an allow pattern and no deny pattern
ThmC22_EnablingFollowsRule ==
    \A name \in TopicNames :
        IsEnabledFor(name).result = DocumentedRule(EffectiveFilter, name)

\* The filter "a*,-a.b" is in effect and the cache holds a denied and an
\* allowed topic
WitC22_AllowAndDeny ==
    /\ rtFilter = <<"a", "*", ",", "-", "a", ".", "b">>
    /\ [topic |-> <<"a", ".", "b">>, value |-> FALSE] \in enabledCache
    /\ [topic |-> <<"a", "x", "b">>, value |-> TRUE] \in enabledCache

\* C23: each topic instance has its own sequence counter. It starts at 0,
\* grows by exactly 1 on every call made while the topic is enabled (the
\* envelope of that call carries the new value, 1 for the first enabled call),
\* and is unchanged by a call made while the topic is disabled, by calls on
\* other instances and by every other operation
ThmC23_PerTopicSeq ==
    /\ [](topicCalls = 0 => \A i \in Instances : seq[i] = 0)
    /\ [][/\ (topicCalls' = topicCalls) => (seq' = seq)
          /\ \A i \in Instances :
               (topicCalls' = topicCalls + 1 /\ TopicCall(i))
               => /\ \A j \in Instances \ {i} : seq'[j] = seq[j]
                  /\ IF DocumentedRule(EffectiveFilter, baseName(i))
                     THEN /\ seq'[i] = seq[i] + 1
                          /\ envelope' = <<[inst |-> i, topic |-> baseName(i),
                                            seq |-> seq[i] + 1]>>
                     ELSE seq'[i] = seq[i] /\ envelope' = envelope]_vars

\* Two enabled calls on the first instance and one call that did not count:
\* the instance of the same name created with a colour suffix is still at 0
WitC23_SecondCallCarriesTwo ==
    /\ topicCalls = 3 /\ seq[1] = 2 /\ seq[2] = 0 /\ seq[3] = 0
    /\ envelope = <<[inst |-> 1, topic |-> <<"a", ".", "b">>, seq |-> 2]>>

\* C24: every flush attempt that enters the flushing state returns to idle
\* once the transport reports the outcome of the send, on success and on
\* failure alike: the report of an outcome leaves the flushing flag cleared,
\* and a set flushing flag is eventually cleared
ThmC24_FlushingEventuallyCleared ==
    /\ [][(Len(inflight') < Len(inflight)) => ~flushing']_vars
    /\ (flushing ~> ~flushing)

\* A failed send has been reported and a later flush attempt is in flight
WitC24_FlushAfterFailure ==
    failedFlushes > 0 /\ flushing /\ Len(inflight) = 1 /\ ~closed

\* C25: on a connected relay that is not closed, whose timer keeps ticking and
\* whose sends always complete, every accepted line eventually leaves the
\* queue: once the producers have stopped, the queue becomes empty (unless the
\* relay is closed first)
ThmC25_QueueEventuallyDrained ==
    (timer = "active" /\ ~closed /\ q # <<>>) ~> (q = <<>> \/ closed)

\* Three accepted lines have left the queue of a connected, open relay in two
\* batches
WitC25_DrainedByTimer ==
    /\ timer = "active" /\ ~closed /\ calls = 3 /\ dropped = 0
    /\ q = <<>> /\ inflight = <<>> /\ sentBatches + failedFlushes = 2

\* C26: a flush attempt that finds the queue empty does not touch the
\* transport and leaves the relay idle. While the queue is empty no step hands
\* a batch to the transport or sets the flushing flag, and sentBatches,
\* sentBytes, failedFlushes, lastError and lastFlushMs change only when a send
\* already in flight completes
ThmC26_EmptyQueueNoSend ==
    [][(q = <<>>)
       => /\ Len(inflight') <= Len(inflight)
          /\ flushing' => flushing
          /\ (inflight' = inflight) => UNCHANGED flushvars]_vars

\* An idle connected relay whose queue has been emptied by an earlier flush:
\* the timer ticks on an empty queue
WitC26_IdleWithEmptyQueue ==
    /\ q = <<>> /\ ~closed /\ ~flushing /\ inflight = <<>>
    /\ timer = "active" /\ calls > 0 /\ sentBatches + failedFlushes > 0

\* C27: a flush attempt that is in flight when close() is called runs to
\* completion and its result is discarded: its completion after close() does
\* not change sentBatches, sentBytes, failedFlushes or lastError
CexC27_ResultDiscardedAfterClose ==
    [][(closed /\ Len(inflight') < Len(inflight))
       => UNCHANGED <<sentBatches, sentBytes, failedFlushes, lastError>>]_vars

\* C28 (as stated): send(payload) encodes, then samples, then checks capacity,
\* then enqueues: the encoder is applied to the payload before the sampling
\* decision is taken, so every send() on an open relay calls the caller's encoder
CexC28_EncodeBeforeSample ==
    [][ForSend(LAMBDA p, r :
         (config.encode = "custom") => encodeCalls' = encodeCalls + 1)]_vars

\* C28 (amended): send(payload) samples, then encodes, then checks capacity,
\* then enqueues. A payload that is sampled out is dropped without the encoder
\* being applied; otherwise the encoder is applied once, and the line it
\* produces goes through the capacity check and is enqueued or dropped with
\* its bytes counted
ThmC28_SampleBeforeEncode ==
    [][ForSend(LAMBDA p, r :
         /\ SampledOut(r) => (encodeCalls' = encodeCalls /\ DropsWithoutBytes)
         /\ (~SampledOut(r) /\ config.encode = "custom")
            => encodeCalls' = encodeCalls + 1
         /\ (~SampledOut(r) /\ ~EncodingFails(p))
            => EnqueuedOrDroppedWithBytes(Frame(Encode(p).line)))]_vars

\* With sampleRate = 0.5 and a caller-supplied encoder: of three calls two
\* were sampled out and one reached the encoder and was enqueued
WitC28_SampledOutNotEncoded ==
    /\ config.sampleRate = 50 /\ config.encode = "custom"
    /\ calls = 3 /\ encodeCalls = 1
    /\ dropped = 2 /\ droppedBytes = 0 /\ Len(q) = 1

\* The incoming line of this step was rejected by the oversize test or by the
\* capacity check, and no queued line was evicted
RejectedForCapacity(p, r) ==
    ~SampledOut(r) /\ ~EncodingFails(p) /\ q' = q /\ dropped' > dropped

\* C29 (as stated): a line dropped by sampling changes dropped and
\* droppedBytes in the same way as a line dropped for capacity: one more drop
\* and the length of the line more dropped bytes
CexC29_SampleDropLikeCapacityDrop ==
    [][ForSend(LAMBDA p, r :
         (SampledOut(r) /\ ~EncodingFails(p))
         => /\ dropped' = dropped + 1
            /\ droppedBytes' = droppedBytes + Len(Frame(Encode(p).line)))]_vars

\* C29 (amended): a sampling drop and a capacity drop both add exactly one to
\* dropped; the capacity drop also adds the length of the line to
\* droppedBytes, the sampling drop leaves droppedBytes unchanged
ThmC29_SampleDropCountsNoBytes ==
    [][ForSend(LAMBDA p, r :
         /\ SampledOut(r) => (dropped' = dropped + 1 /\ droppedBytes' = droppedBytes)
         /\ RejectedForCapacity(p, r)
            => /\ dropped' = dropped + 1
               /\ droppedBytes' = droppedBytes + Len(Frame(Encode(p).line)))]_vars

\* A queue of one line with sampleRate = 0.5: one line accepted, one 2-byte
\* line rejected because the queue is full, one payload dropped without bytes
WitC29_BothKindsOfDrop ==
    /\ config.sampleRate = 50 /\ config.dropPolicy = "drop_newest"
    /\ calls = 3 /\ Len(q) = 1 /\ dropped = 2 /\ droppedBytes = 2

\* C30: with dropPolicy = drop_oldest, an incoming line that is not oversize
\* for a batch but is larger than the byte ceiling itself
\* (batchBytes >= len > maxQueueBytes) evicts every queued line from the front
\* and is then rejected: the queue ends empty and dropped grows by the number
\* of evicted lines plus one
ThmC30_LargerThanCeilingEmptiesQueue ==
    [][ForOffered(LAMBDA data :
         (/\ config.dropPolicy = "drop_oldest"
          /\ Len(data) <= config.batchBytes
          /\ Len(data) > config.maxQueueBytes)
         => /\ q' = <<>> /\ queuedBytes' = 0
            /\ dropped' = dropped + Len(q) + 1
            /\ droppedBytes' = droppedBytes + SumLen(q) + Len(data))]_vars

\* maxQueueBytes = 4 and batchBytes = 5: two 2-byte lines were queued, and a
\* 5-byte line evicted both and was rejected
WitC30_TwoEvictedOneRejected ==
    /\ config.dropPolicy = "drop_oldest"
    /\ config.maxQueueBytes = 4 /\ config.batchBytes = 5
    /\ calls = 3 /\ q = <<>> /\ queuedBytes = 0
    /\ dropped = 3 /\ droppedBytes = 9
    /\ inflight = <<>> /\ sentBatches = 0 /\ failedFlushes = 0

\* C31: every completed flush attempt that sent a non-empty batch, successful
\* or failed, leaves lastFlushMs equal to the duration of that attempt: a step
\* in which the transport reports an outcome ms after the attempt started ends
\* with lastFlushMs = ms.  (Violated: the failure path relies on the finally
\* block, which writes lastFlushMs only while it is still undefined.)
CexC31_TimingOfEveryAttempt ==
    [][\A i \in 1..Len(inflight), o \in Outcomes, ms \in Durations :
          Complete(i, o, ms) => lastFlushMs' = <<ms>>]_vars

\* C32: nothing is drained or handed to the transport before connect() has
\* completed successfully: while the flush timer has never been registered
\* (connect() has not succeeded), no line has left the queue through a drain
\* and no batch is or has been with the transport.  (Violated: flushNow() does
\* not depend on connect().)
CexC32_NoDrainBeforeConnect ==
    (timer = "unset") =>
        /\ drainedLines = 0
        /\ inflight = <<>>
        /\ sentBatches = 0 /\ failedFlushes = 0

\* The ids of the handlers attached to instance i, in the order of attachment
AttachedIds(i) == [k \in 1..Len(extensions[i]) |-> extensions[i][k].fn.id]

\* No handler of instance i was attached with alsoPrint = true
NoneAlsoPrints(i) == \A k \in 1..Len(extensions[i]) : ~extensions[i][k].alsoPrint

\* C33: a call of an enabled topic that has handlers hands its envelope to the
\* handlers whether or not printing is enabled, and writes no line when no
\* handler was attached with alsoPrint = true; when the scheduled callback
\* runs, every attached handler is called on that envelope, in the order of
\* attachment, the ones after a handler that throws included.
ThmC33_HandlersRunForEnabledCalls ==
    [][/\ \A i \in Instances :
            (TopicCall(i) /\ IsEnabledFor(baseName(i)).result /\ Len(extensions[i]) > 0)
            => /\ pending' = Append(pending, [inst |-> i, topic |-> baseName(i),
                                              seq |-> seq[i] + 1])
               /\ NoneAlsoPrints(i) => printed' = printed
       /\ (Len(pending') < Len(pending))
            => ran' = <<[envelope |-> Head(pending),
                         fns |-> AttachedIds(Head(pending).inst)]>>]_vars

\* C33 witness: with printing off, a call was handed to a handler that throws
\* and then to a second handler, and nothing has been printed
WitC33_SecondHandlerAfterThrow ==
    /\ ran # << >>
    /\ ran[1].fns = <<"h1", "h2">>
    /\ ~PRINT_ENABLED
    /\ printed = << >>

\* C34: no line is lost silently: the number of send/sendLine/sendChunk calls
\* made while the relay was not closed equals the lines now queued, plus
\* dropped, plus the lines drained into batches.  (Violated by a send() whose
\* encoder returns undefined: the call throws and is counted nowhere.)
CexC34_EveryCallAccounted == calls = Len(q) + dropped + drainedLines

\* C35: every queued line has a length between 1 and batchBytes, so the drain
\* loop takes at least the head of a non-empty queue, and a flush attempt on an
\* open, non-flushing relay with a non-empty queue removes at least one line.
ThmC35_DrainProgress ==
    /\ [](\A k \in 1..Len(q) : Len(q[k]) >= 1 /\ Len(q[k]) <= config.batchBytes)
    /\ []((q # <<>>) => Len(DrainBatch(q, queuedBytes).batch) >= 1)
    /\ [][(FlushGuard /\ q # <<>> /\ FlushNow)
            => (Len(q') < Len(q) /\ drainedLines' > drainedLines)]_vars

\* C35 witness: a flush attempt has taken the head of a queue alone, because
\* a batch cannot carry two lines, and lines remain
WitC35_HeadAloneInBatch ==
    /\ config.batchBytes = 3
    /\ drainedLines = 1
    /\ inflight # <<>> /\ Len(inflight[1].data) = 2
    /\ q # <<>> /\ Len(Head(q)) = 2

\* The number of sends in flight, as the claim counts them
InFlightCount == IF inflight # <<>> THEN 1 ELSE 0

\* C36: every non-empty batch drained is counted exactly once, when its
\* attempt completes: sentBatches + failedFlushes + (1 while a send is in
\* flight) is the number of non-empty batches drained; a completing attempt
\* adds one to exactly one of sentBatches and failedFlushes, and sentBytes
\* grows, by the length of the batch, when and only when sentBatches does.
ThmC36_AttemptCountedOnce ==
    /\ [](sentBatches + failedFlushes + InFlightCount = drainedBatches)
    /\ [][/\ (Len(inflight') < Len(inflight)) =>
               /\ \/ sentBatches' = sentBatches + 1 /\ failedFlushes' = failedFlushes
                  \/ sentBatches' = sentBatches /\ failedFlushes' = failedFlushes + 1
               /\ sentBytes' = IF sentBatches' = sentBatches + 1
                               THEN sentBytes + Len(inflight[1].data) ELSE sentBytes
          /\ (sentBytes' # sentBytes) => (sentBatches' = sentBatches + 1)]_vars

\* C36 witness: one batch sent, one failed, a third in flight
WitC36_SentFailedAndInFlight ==
    /\ sentBatches = 1 /\ failedFlushes = 1 /\ inflight # <<>>
    /\ drainedBatches = 3
    /\ sentBytes > 0

\* C37: lastError describes the most recent completed attempt: after a step
\* that counts an attempt in sentBatches it is undefined, whatever it was
\* before, and after a step that counts an attempt in failedFlushes it is
\* defined.
ThmC37_LastErrorFollowsLatestAttempt ==
    [][/\ (sentBatches' > sentBatches) => lastError' = "undefined"
       /\ (failedFlushes' > failedFlushes) => lastError' # "undefined"]_vars

\* C37 witness: a failed attempt was followed by a successful one, which
\* cleared the error
WitC37_ErrorClearedBySuccess ==
    /\ failedFlushes = 1 /\ sentBatches = 1
    /\ lastError = "undefined"
    /\ inflight = <<>>
    /\ lastFlushMs = <<1>>

\* C38: while the relay is not closed, the flushing flag is set exactly while
\* a batch send is in flight; on a closed relay the flag is never set.
ThmC38_FlushingMeansInFlight ==
    /\ ~closed => (flushing <=> inflight # <<>>)
    /\ closed => ~flushing

\* C38 witness: the relay was closed while its second send was in flight
WitC38_ClosedDuringSecondSend ==
    /\ closed /\ ~flushing
    /\ sentBatches + failedFlushes = 1
    /\ inflight # <<>>

\* C39: the Node relay and the Worker relay implement the same queue: from
\* every queue state, under the same configuration, send(), sendChunk() and
\* the batch drain of the one leave the queue contents, the tracked byte count,
\* dropped and droppedBytes that the same operation of the other leaves (and
\* drain the same batch); both start from the empty queue, so the same sequence
\* of operations ends in the same state.
ThmC39_NodeAndWorkerQueuesAgree ==
    /\ \A p \in Payloads, r \in RandomDraws :
          SendBody(QState, p, r) = WorkerSend(QState, p, r)
    /\ \A t \in Texts : SendChunkBody(QState, t) = WorkerSendChunk(QState, t)
    /\ DrainBatch(q, queuedBytes) = WorkerDrain(q, queuedBytes)

\* C39 witness: the Worker relay holds a line after a line was dropped with
\* its bytes and another was drained
WitC39_WorkerQueueAfterDropAndDrain ==
    /\ impl = "worker" /\ ~closed
    /\ q # <<>>
    /\ dropped > 0 /\ droppedBytes > 0
    /\ drainedLines > 0

\* C40: the enabled cache is coherent with the filter in force: every cached
\* decision is the decision the compiled patterns give now, so the answer of
\* isEnabledFor() for any topic is the computed one, after any sequence of
\* setDebug(), configureRatatouille(), setPrint() and topic calls.
ThmC40_CacheCoherent ==
    /\ \A e \in enabledCache : e.value = IsEnabledUncached(e.topic)
    /\ \A i \in Instances : IsEnabledFor(baseName(i)).result = IsEnabledUncached(baseName(i))
    /\ FILTER_CFG = ParseDebugEnv(CurrentFilterString(rtFilter, envDebug))

\* C40 witness: topic a.b was called while DEBUG = a* enabled it, the filter
\* was then changed to -a.b, and the decision cached now for a.b is false
WitC40_DecisionRecomputedAfterChange ==
    /\ envDebug = <<"a", "*">>
    /\ seq[1] = 1
    /\ rtFilter = <<"-", "a", ".", "b">>
    /\ [topic |-> <<"a", ".", "b">>, value |-> FALSE] \in enabledCache
    /\ rtPrint # << >>

====
